---- MODULE Spec2Model ----
(***************************************************************************)
(* Real Estate API (src/main.py): the listing read path with its demo      *)
(* fallback, the inquiry write path, and the diagnostics endpoint, over a  *)
(* document store that may be absent, unconfigured, failing or working.    *)
(*                                                                         *)
(* Optional values (Optional[bool], Optional[int], Optional[str]) are      *)
(* sets: {} is None and {v} is the value v.                                *)
(***************************************************************************)
EXTENDS Integers, Sequences, FiniteSets, TLC

(* ------------------------------ bounds -------------------------------- *)

\* Most documents the external listing collection holds.
MaxDocs == 3

\* Most inquiries the inquiry collection holds.
MaxInquiries == 2

\* Largest limit a request carries.
MaxLimit == 4

(* --------------------------- program constants ------------------------ *)

\* Field(..., min_length=5, max_length=2000) of InquiryIn.message
MinMessageLength == 5

MaxMessageLength == 2000

\* collections[:10] of test_database
MaxCollectionsShown == 10

(* ------------------------------ helpers ------------------------------- *)

None == {}

Some(v) == {v}

IsNone(x) == x = {}

Val(x) == CHOOSE v \in x : TRUE

Min(a, b) == IF a <= b THEN a ELSE b

Max(a, b) == IF a >= b THEN a ELSE b

Abs(n) == IF n < 0 THEN 0 - n ELSE n

\* Python's s[:n]: the first n entries, or all but the last -n when n < 0.
PySliceTo(s, n) ==
    IF n >= 0 THEN SubSeq(s, 1, Min(n, Len(s)))
    ELSE SubSeq(s, 1, Max(Len(s) + n, 0))

\* Python's [d for d in s if P(d)].
RECURSIVE SelectWhere(_, _)
SelectWhere(s, featured) ==
    IF s = <<>> THEN <<>>
    ELSE IF Head(s).featured = featured
         THEN <<Head(s)>> \o SelectWhere(Tail(s), featured)
         ELSE SelectWhere(Tail(s), featured)

\* The store's native identifier: unique per collection and ordinal.
ObjectId(collection, n) == [collection |-> collection, n |-> n]

\* str(x) of an identifier: str(None) is "None".
Str(x) ==
    IF IsNone(x) THEN "None"
    ELSE Val(x).collection \o "-" \o ToString(Val(x).n)

(* ---------------------------- ListingOut ------------------------------ *)

\* The fields of ListingOut that have no default.
ListingRequired ==
    {"title", "address", "city", "state", "price", "beds", "baths", "sqft"}

\* The defaults of ListingOut's other fields.
ListingDefaults ==
    [id |-> None, image |-> None, gallery |-> None, featured |-> FALSE,
     property_type |-> "House"]

ListingFields == ListingRequired \cup DOMAIN ListingDefaults

\* ListingOut(**kw): whether validation passes (every required field given).
ListingOutValid(kw) == ListingRequired \subseteq DOMAIN kw

\* ListingOut(**kw): the model built; unknown keys are ignored, missing
\* optional ones take their default.
ListingOut(kw) ==
    [f \in ListingFields |->
        IF f \in DOMAIN kw THEN kw[f] ELSE ListingDefaults[f]]

\* The three demo listings (baths in tenths).
DemoData ==
    << ListingOut(
         [id |-> Some("demo-1"), title |-> "Modern Smart Home with Skyline Views",
          address |-> "123 Aurora Ave", city |-> "San Francisco", state |-> "CA",
          price |-> 1895000, beds |-> 4, baths |-> 35, sqft |-> 2560,
          image |-> Some("photo-1507089947368-19c1da9775ae"), gallery |-> None,
          featured |-> TRUE, property_type |-> "House"]),
       ListingOut(
         [id |-> Some("demo-2"), title |-> "Sleek Downtown Loft",
          address |-> "77 Horizon St Apt 12B", city |-> "New York", state |-> "NY",
          price |-> 1299000, beds |-> 2, baths |-> 20, sqft |-> 1180,
          image |-> Some("photo-1502672260266-1c1ef2d93688"),
          featured |-> TRUE, property_type |-> "Condo"]),
       ListingOut(
         [id |-> Some("demo-3"), title |-> "Sunlit Suburban Retreat",
          address |-> "940 Evergreen Dr", city |-> "Austin", state |-> "TX",
          price |-> 739000, beds |-> 3, baths |-> 20, sqft |-> 1920,
          image |-> Some("photo-1564013799919-ab600027ffc6"),
          featured |-> FALSE, property_type |-> "House"]) >>

(* --------------------------- document store --------------------------- *)

\* dict helpers: d1 | d2, and d without some keys.
Merge(f, g) ==
    [k \in DOMAIN f \cup DOMAIN g |-> IF k \in DOMAIN g THEN g[k] ELSE f[k]]

Without(f, keys) == [k \in DOMAIN f \ keys |-> f[k]]

\* The listing fields an externally created document carries (schemas.Listing).
DocBody ==
    [title |-> "Seeded listing", address |-> "1 Main St", city |-> "Austin",
     state |-> "TX", price |-> 500000, beds |-> 3, baths |-> 20, sqft |-> 1500]

\* The shapes of document an external writer puts in the listing collection:
\* featured, not featured, and one that lacks a required field (ListingOut
\* rejects it).
DocShapes ==
    { Merge(DocBody, [featured |-> TRUE]),
      Merge(DocBody, [featured |-> FALSE]),
      Without(Merge(DocBody, [featured |-> TRUE]), {"title"}) }

\* What the process finds when it resolves `from database import ...`:
\* no module, a module whose db is None, or a connected db.
DbStates == {"ImportError", "None", "Connected"}

EnvNames == {"DATABASE_URL", "DATABASE_NAME"}

\* database.py connects only when DATABASE_URL and DATABASE_NAME are both
\* set; otherwise its db is None.
DbStatesFor(environ) ==
    IF environ = EnvNames THEN {"ImportError", "Connected"}
    ELSE {"ImportError", "None"}

\* The failure of the store during one request: none, the query itself
\* failing, or the cursor failing at the fetch after `after` documents (a
\* cursor that holds no more than `after` documents is read through).
Faults ==
    { [kind |-> "none", after |-> 0], [kind |-> "query", after |-> 0] }
    \cup { [kind |-> "cursor", after |-> k] : k \in 1..(MaxDocs - 1) }

NoFault == [kind |-> "none", after |-> 0]

\* A find() filter: every key of the query is in the document with that value.
Matches(doc, query) ==
    \A k \in DOMAIN query : k \in DOMAIN doc /\ doc[k] = query[k]

RECURSIVE Find(_, _)
Find(coll, query) ==
    IF coll = <<>> THEN <<>>
    ELSE IF Matches(Head(coll), query)
         THEN <<Head(coll)>> \o Find(Tail(coll), query)
         ELSE Find(Tail(coll), query)

\* Insert d into s, which is ordered by created_at descending.
RECURSIVE InsertDesc(_, _)
InsertDesc(s, d) ==
    IF s = <<>> THEN <<d>>
    ELSE IF d.created_at > Head(s).created_at
         THEN <<d>> \o s
         ELSE <<Head(s)>> \o InsertDesc(Tail(s), d)

\* Mutant: the cursor is not sorted.
SortCreatedDesc_Unsorted(s) == s

\* cursor.sort("created_at", -1)
RECURSIVE SortCreatedDesc(_)
SortCreatedDesc(s) ==
    IF s = <<>> THEN <<>>
    ELSE InsertDesc(SortCreatedDesc(Tail(s)), Head(s))

\* cursor.limit(n): 0 is no limit, a negative n is its magnitude.
CursorLimit(s, n) ==
    IF n = 0 THEN s ELSE SubSeq(s, 1, Min(Abs(n), Len(s)))

(* ---------------------------- get_listings ---------------------------- *)

\* The exceptions the handlers meet, all subclasses of Exception; "none" is
\* no exception.
Exceptions == {"ImportError", "Exception", "PyMongoError", "ValidationError"}

\* Mutant: only the failed import is caught.
Caught_ImportErrorOnly(exc) == exc = "ImportError"

\* `except Exception:` catches every one of them.
Caught(exc) == exc \in Exceptions

\* The loop body's keyword arguments: doc["id"] = str(doc.get("_id")) and
\* doc.pop("_id", None).
DocKwargs(doc) ==
    LET doc_id == Str(IF "_id" \in DOMAIN doc THEN Some(doc["_id"]) ELSE None)
    IN  Without(Merge(doc, [id |-> Some(doc_id)]), {"_id"})

\* `for doc in cursor: ... items.append(ListingOut(**doc))`: a failing
\* query raises before any document, a failing cursor raises at the fetch
\* that follows fault.after documents, ListingOut raises on a document it
\* rejects. `items` is what the loop had collected when it ended.
RECURSIVE CursorLoop(_, _, _, _)
CursorLoop(docs, items, fault, yielded) ==
    IF fault.kind # "none" /\ yielded >= fault.after
    THEN [exc |-> "PyMongoError", items |-> items]
    ELSE IF docs = <<>>
    THEN [exc |-> "none", items |-> items]
    ELSE LET kw == DocKwargs(Head(docs))
         IN  IF ~ListingOutValid(kw)
             THEN [exc |-> "ValidationError", items |-> items]
             ELSE CursorLoop(Tail(docs), Append(items, ListingOut(kw)),
                             fault, yielded + 1)

\* `if featured is not None: query["featured"] = featured`
ListingQuery(featured) ==
    IF IsNone(featured) THEN [k \in {} |-> TRUE]
    ELSE [featured |-> Val(featured)]

\* Mutant: the live cursor is never limited.
LiveLimit_Unlimited(cursor, limit) == cursor

\* `if limit: cursor = cursor.limit(limit)`
LiveLimit(cursor, limit) ==
    IF ~IsNone(limit) /\ Val(limit) # 0
    THEN CursorLimit(cursor, Val(limit))
    ELSE cursor

\* The cursor of line 151-153: the documents it will yield, in order.
LiveCursor(coll, featured, limit) ==
    LiveLimit(SortCreatedDesc(Find(coll, ListingQuery(featured))), limit)

\* The try block of get_listings: the exception it ended with ("none" when
\* it ran through), the items collected, whether `return items` ran, and
\* the store commands issued.
LivePath(dbState, coll, fault, featured, limit) ==
    IF dbState = "ImportError"
    THEN [exc |-> "ImportError", returned |-> FALSE, items |-> <<>>, ops |-> <<>>]
    ELSE IF dbState = "None"
    THEN [exc |-> "none", returned |-> FALSE, items |-> <<>>, ops |-> <<>>]
    ELSE LET loop == CursorLoop(LiveCursor(coll, featured, limit), <<>>, fault, 0)
         IN  [exc      |-> loop.exc,
              returned |-> loop.exc = "none" /\ loop.items # <<>>,
              items    |-> loop.items,
              ops      |-> << "listing.find" >>]

\* `if featured is not None: data = [d for d in data if d.featured == featured]`
FallbackFeatured(data, featured) ==
    IF IsNone(featured) THEN data ELSE SelectWhere(data, Val(featured))

\* `if limit is not None: data = data[:limit]`
FallbackLimit(data, limit) ==
    IF IsNone(limit) THEN data ELSE PySliceTo(data, Val(limit))

\* Mutant: the demo data is cut before it is filtered.
Fallback_LimitBeforeFilter(demo, featured, limit) ==
    FallbackFeatured(FallbackLimit(demo, limit), featured)

\* Lines 166-171: the demo data, filtered.
Fallback(demo, featured, limit) ==
    FallbackLimit(FallbackFeatured(demo, featured), limit)

\* Mutant: the filters are applied to the global list in place.
DemoAfterFallback_InPlace(demo, featured, limit) ==
    Fallback(demo, featured, limit)

\* What the fallback lines leave in the module-level DEMO_LISTINGS: `data`
\* is rebound to new lists, the global list is only read.
DemoAfterFallback(demo, featured, limit) == demo

\* Mutant: an empty live result is returned as it is.
get_listings_ReturnsEmptyLive(dbState, coll, demo, fault, featured, limit) ==
    LET live == LivePath(dbState, coll, fault, featured, limit)
    IN  IF live.exc = "none" /\ dbState = "Connected"
        THEN [status |-> 200, body |-> live.items, source |-> "live",
              exc |-> live.exc, ops |-> live.ops]
        ELSE [status |-> 200, body |-> Fallback(demo, featured, limit),
              source |-> "fallback", exc |-> live.exc, ops |-> live.ops]

\* Mutant: a live path that raised is tried a second time.
get_listings_Retry(dbState, coll, demo, fault, featured, limit) ==
    LET first  == LivePath(dbState, coll, fault, featured, limit)
        second == LivePath(dbState, coll, NoFault, featured, limit)
        live   == IF first.exc = "PyMongoError"
                  THEN [second EXCEPT !.ops = first.ops \o second.ops]
                  ELSE first
    IN  IF live.returned
        THEN [status |-> 200, body |-> live.items, source |-> "live",
              exc |-> live.exc, ops |-> live.ops]
        ELSE [status |-> 200, body |-> Fallback(demo, featured, limit),
              source |-> "fallback", exc |-> live.exc, ops |-> live.ops]

\* get_listings: the response, which path produced it, the exception the
\* live path ended with, and the store commands issued. An exception that
\* is not caught leaves the handler and is answered 500.
get_listings(dbState, coll, demo, fault, featured, limit) ==
    LET live == LivePath(dbState, coll, fault, featured, limit)
    IN  IF live.returned
        THEN [status |-> 200, body |-> live.items, source |-> "live",
              exc |-> live.exc, ops |-> live.ops]
        ELSE IF live.exc # "none" /\ ~Caught(live.exc)
        THEN [status |-> 500, body |-> <<>>, source |-> "error",
              exc |-> live.exc, ops |-> live.ops]
        ELSE [status |-> 200, body |-> Fallback(demo, featured, limit),
              source |-> "fallback", exc |-> live.exc, ops |-> live.ops]

(* ---------------------------- create_inquiry -------------------------- *)

\* EmailStr: one "@" with a non-empty local part before it and, after it, a
\* domain of non-empty labels separated by ".", at least two of them. An
\* address is the sequence of its symbols.
IsEmail(e) ==
    LET ats == {i \in 1..Len(e) : e[i] = "@"}
    IN  /\ Cardinality(ats) = 1
        /\ LET at     == CHOOSE i \in ats : TRUE
               domain == SubSeq(e, at + 1, Len(e))
           IN  /\ at > 1
               /\ \A i \in 1..(at - 1) : e[i] # "."
               /\ domain # <<>>
               /\ domain[1] # "."
               /\ domain[Len(domain)] # "."
               /\ \E i \in 1..Len(domain) : domain[i] = "."
               /\ \A i \in 1..(Len(domain) - 1) :
                      ~(domain[i] = "." /\ domain[i + 1] = ".")

\* Mutant: the message has no minimum length.
InquiryInValid_NoMinLength(body) ==
    /\ ~IsNone(body.name)
    /\ IsEmail(body.email)
    /\ body.message <= MaxMessageLength

\* InquiryIn(**body): name is required, email is an EmailStr, message has
\* min_length 5 and max_length 2000. A message is its length.
InquiryInValid(body) ==
    /\ ~IsNone(body.name)
    /\ IsEmail(body.email)
    /\ body.message >= MinMessageLength
    /\ body.message <= MaxMessageLength

\* payload.model_dump()
ModelDump(body) ==
    [name |-> Val(body.name), email |-> body.email, message |-> body.message,
     property_id |-> body.property_id]

\* database.create_document(collection, data): raises when db is None or
\* the insert fails, else stores the document under a fresh identifier and
\* returns that identifier as a string.
create_document(dbState, coll, fault, data, oid) ==
    IF dbState # "Connected"
    THEN [exc |-> "Exception", id |-> "", coll |-> coll, ops |-> <<>>]
    ELSE IF fault.kind # "none"
    THEN [exc |-> "PyMongoError", id |-> "", coll |-> coll,
          ops |-> << "inquiry.insert_one" >>]
    ELSE [exc |-> "none", id |-> Str(Some(oid)),
          coll |-> Append(coll, Merge(data, [_id |-> oid, created_at |-> oid.n])),
          ops |-> << "inquiry.insert_one" >>]

\* The identifier create_inquiry answers with when the insert raised.
DemoId == "demo"

\* The try block of create_inquiry: the import, then create_document.
InquiryPath(dbState, coll, fault, body, oid) ==
    IF dbState = "ImportError"
    THEN [exc |-> "ImportError", id |-> "", coll |-> coll, ops |-> <<>>]
    ELSE create_document(dbState, coll, fault, ModelDump(body), oid)

\* Mutant: the acknowledgement always carries the sentinel identifier.
create_inquiry_AlwaysDemo(dbState, coll, fault, body, oid) ==
    LET r == InquiryPath(dbState, coll, fault, body, oid)
    IN  [status |-> 200, body |-> [status |-> "ok", id |-> DemoId],
         exc |-> r.exc, coll |-> r.coll, ops |-> r.ops]

\* create_inquiry on a validated payload: the response, the exception the
\* try block ended with, the inquiry collection afterwards, and the store
\* commands issued.
create_inquiry(dbState, coll, fault, body, oid) ==
    LET r == InquiryPath(dbState, coll, fault, body, oid)
    IN  IF r.exc = "none"
        THEN [status |-> 200, body |-> [status |-> "ok", id |-> r.id],
              exc |-> r.exc, coll |-> r.coll, ops |-> r.ops]
        ELSE IF Caught(r.exc)
        THEN [status |-> 200, body |-> [status |-> "ok", id |-> DemoId],
              exc |-> r.exc, coll |-> r.coll, ops |-> r.ops]
        ELSE [status |-> 500, body |-> [status |-> "error", id |-> ""],
              exc |-> r.exc, coll |-> r.coll, ops |-> r.ops]

\* POST /api/inquiries: the body is validated into InquiryIn before the
\* handler runs; a rejected body is answered 422 and the handler never runs.
post_inquiries(dbState, coll, fault, body, oid) ==
    IF ~InquiryInValid(body)
    THEN [status |-> 422, body |-> [status |-> "error", id |-> ""],
          exc |-> "none", coll |-> coll, ops |-> <<>>]
    ELSE create_inquiry(dbState, coll, fault, body, oid)

\* Request bodies: two that validate and one for each way of failing.
GoodEmail == << "a", "@", "b", ".", "c" >>

InquiryBodies ==
    { [name |-> Some("Ann"), email |-> GoodEmail,
       message |-> MinMessageLength, property_id |-> None],
      [name |-> Some("Ann"), email |-> GoodEmail,
       message |-> MaxMessageLength, property_id |-> Some("demo-1")],
      [name |-> Some("Ann"), email |-> GoodEmail,
       message |-> MinMessageLength - 1, property_id |-> None],
      [name |-> Some("Ann"), email |-> GoodEmail,
       message |-> MaxMessageLength + 1, property_id |-> None],
      [name |-> Some("Ann"), email |-> << "a", "b", ".", "c" >>,
       message |-> MinMessageLength, property_id |-> None],
      [name |-> Some("Ann"), email |-> << "a", "@", "b" >>,
       message |-> MinMessageLength, property_id |-> None],
      [name |-> None, email |-> GoodEmail,
       message |-> MinMessageLength, property_id |-> None] }

(* ----------------------------- test_database -------------------------- *)

\* `"Set" if os.getenv(name) else "Not Set"`
EnvStatus(environ, name) == IF name \in environ THEN "Set" ELSE "Not Set"

\* db.list_collection_names(): the collections that hold a document.
CollectionNames(listingColl, inquiryColl) ==
    (IF listingColl # <<>> THEN << "listing" >> ELSE <<>>)
    \o (IF inquiryColl # <<>> THEN << "inquiry" >> ELSE <<>>)

\* test_database: the diagnostics object and the store commands issued.
test_database(dbState, environ, names, fault) ==
    LET base == [backend |-> "Running", database |-> "Not Available",
                 connection_status |-> "Not Connected", collections |-> <<>>]
        probed ==
            IF dbState = "ImportError"
            THEN [base EXCEPT !.database = "Database module not found"]
            ELSE IF dbState = "None"
            THEN [base EXCEPT !.database = "Available but not initialized"]
            ELSE IF fault.kind # "none"
            THEN [base EXCEPT !.database = "Connected but Error",
                              !.connection_status = "Connected"]
            ELSE [base EXCEPT !.database = "Connected & Working",
                              !.connection_status = "Connected",
                              !.collections =
                                  PySliceTo(names, MaxCollectionsShown)]
    IN  [status |-> 200,
         body   |-> Merge(probed,
                       [database_url  |-> EnvStatus(environ, "DATABASE_URL"),
                        database_name |-> EnvStatus(environ, "DATABASE_NAME")]),
         ops    |-> IF dbState = "Connected"
                    THEN << "list_collection_names" >> ELSE <<>>]

(* ------------------------------ the system ---------------------------- *)

VARIABLES
    DEMO_LISTINGS,  \* the module-level fallback list
    dbState,        \* what `from database import ...` resolves to
    environ,        \* the environment variables that are set
    listing,        \* the store's listing collection, in insertion order
    inquiry,        \* the store's inquiry collection, in insertion order
    request,        \* the last request handled
    response        \* its response, with the store commands it issued

vars == << DEMO_LISTINGS, dbState, environ, listing, inquiry, request, response >>

\* The next identifier the store hands out in a collection; its ordinal is
\* also the document's creation time.
NextOid(name, coll) == ObjectId(name, Len(coll) + 1)

Featureds == {None, Some(TRUE), Some(FALSE)}

\* limit is any int: absent, negative, zero, positive.
Limits == {None} \cup {Some(n) : n \in -1..MaxLimit}

\* No request is being handled.
Idle == [endpoint |-> "none"]

NoResponse == [status |-> 0, body |-> <<>>, ops |-> <<>>]

Init ==
    /\ DEMO_LISTINGS = DemoData
    /\ environ \in SUBSET EnvNames
    /\ dbState \in DbStatesFor(environ)
    /\ listing = <<>>
    /\ inquiry = <<>>
    /\ request = Idle
    /\ response = NoResponse

\* An external writer adds a listing document (seed data, direct insert).
SeedListing(shape) ==
    /\ request = Idle
    /\ dbState = "Connected"
    /\ Len(listing) < MaxDocs
    /\ listing' = Append(listing,
                     Merge(shape, [_id |-> NextOid("listing", listing),
                                   created_at |-> Len(listing) + 1]))
    /\ UNCHANGED << DEMO_LISTINGS, dbState, environ, inquiry, request, response >>

\* GET /
ReadRoot ==
    /\ request = Idle
    /\ request' = [endpoint |-> "/"]
    /\ response' = [status |-> 200,
                    body |-> [message |-> "Hello from FastAPI Backend!"],
                    ops |-> <<>>]
    /\ UNCHANGED << DEMO_LISTINGS, dbState, environ, listing, inquiry >>

\* GET /api/hello
Hello ==
    /\ request = Idle
    /\ request' = [endpoint |-> "/api/hello"]
    /\ response' = [status |-> 200,
                    body |-> [message |-> "Hello from the backend API!"],
                    ops |-> <<>>]
    /\ UNCHANGED << DEMO_LISTINGS, dbState, environ, listing, inquiry >>

\* GET /test
TestDatabase(fault) ==
    /\ request = Idle
    /\ request' = [endpoint |-> "/test", fault |-> fault]
    /\ response' = test_database(dbState, environ,
                                 CollectionNames(listing, inquiry), fault)
    /\ UNCHANGED << DEMO_LISTINGS, dbState, environ, listing, inquiry >>

\* GET /api/listings?featured=..&limit=..
GetListings(featured, limit, fault) ==
    /\ request = Idle
    /\ request' = [endpoint |-> "/api/listings", featured |-> featured,
                   limit |-> limit, fault |-> fault]
    /\ response' = get_listings(dbState, listing, DEMO_LISTINGS, fault,
                                featured, limit)
    /\ DEMO_LISTINGS' = DemoAfterFallback(DEMO_LISTINGS, featured, limit)
    /\ UNCHANGED << dbState, environ, listing, inquiry >>

\* POST /api/inquiries
CreateInquiry(body, fault) ==
    /\ request = Idle
    /\ Len(inquiry) < MaxInquiries
    /\ LET r == post_inquiries(dbState, inquiry, fault, body,
                               NextOid("inquiry", inquiry))
       IN  /\ request' = [endpoint |-> "/api/inquiries", body |-> body,
                          fault |-> fault, before |-> inquiry]
           /\ response' = [status |-> r.status, body |-> r.body,
                           exc |-> r.exc, ops |-> r.ops]
           /\ inquiry' = r.coll
    /\ UNCHANGED << DEMO_LISTINGS, dbState, environ, listing >>

\* The response is sent and the request is over.
Respond ==
    /\ request # Idle
    /\ request' = Idle
    /\ response' = NoResponse
    /\ UNCHANGED << DEMO_LISTINGS, dbState, environ, listing, inquiry >>

Next ==
    \/ \E shape \in DocShapes : SeedListing(shape)
    \/ ReadRoot
    \/ Hello
    \/ \E fault \in {f \in Faults : f.kind # "cursor"} : TestDatabase(fault)
    \/ \E featured \in Featureds, limit \in Limits, fault \in Faults :
           GetListings(featured, limit, fault)
    \/ \E body \in InquiryBodies, fault \in {f \in Faults : f.kind # "cursor"} :
           CreateInquiry(body, fault)
    \/ Respond

Spec == Init /\ [][Next]_vars

(* ------------------------------ properties ---------------------------- *)

\* A listing request has been handled and its response is at hand.
ListingsHandled == request.endpoint = "/api/listings"

\* An inquiry request has been handled and its response is at hand.
InquiryHandled == request.endpoint = "/api/inquiries"

\* limit as the contract of the listing endpoint has it: absent or positive.
ContractLimit(limit) == IsNone(limit) \/ Val(limit) > 0

\* The identifiers of a list of listings, in order.
Ids(items) == [i \in 1..Len(items) |-> items[i].id]

\* The documents of the listing collection a featured filter selects.
Matching(featured) ==
    {listing[i] : i \in {j \in 1..Len(listing) :
        IsNone(featured) \/ ("featured" \in DOMAIN listing[j]
                               /\ listing[j].featured = Val(featured))}}

\* C1: for every featured and every positive (or absent) limit, under every
\* store condition, the list get_listings returns is no longer than limit
\* when limit is given, and holds only listings whose featured equals the
\* requested value when featured is given.
C1_LengthAndFeatured ==
    (ListingsHandled /\ ContractLimit(request.limit)) =>
        /\ response.status = 200
        /\ ~IsNone(request.limit) => Len(response.body) <= Val(request.limit)
        /\ ~IsNone(request.featured) =>
               \A i \in 1..Len(response.body) :
                   response.body[i].featured = Val(request.featured)

\* C1 witness: a live response that the limit cut short, under a featured
\* filter.
C1_Witness ==
    /\ ListingsHandled
    /\ response.source = "live"
    /\ ~IsNone(request.featured)
    /\ ~IsNone(request.limit)
    /\ Val(request.limit) > 0
    /\ Len(response.body) = Val(request.limit)
    /\ Cardinality(Matching(request.featured)) > Val(request.limit)

\* The store is unavailable to the request: no database module, no
\* configured db, or a query that fails.
StoreUnavailable ==
    \/ dbState # "Connected"
    \/ request.fault.kind = "query"

\* C2: when the store is unavailable, get_listings returns the demo list
\* demo-1, demo-2, demo-3 restricted to the requested featured value and then
\* cut to its first limit entries, in list order: all three with no filter,
\* demo-1 and demo-2 with featured=true, demo-1 alone with limit=1.
C2_FallbackExact ==
    (ListingsHandled /\ StoreUnavailable
       /\ (IsNone(request.limit) \/ Val(request.limit) >= 0)) =>
        LET kept == {i \in 1..Len(DemoData) : IsNone(request.featured)
                         \/ DemoData[i].featured = Val(request.featured)}
            n    == IF IsNone(request.limit) THEN Cardinality(kept)
                    ELSE Min(Val(request.limit), Cardinality(kept))
            body == response.body
        IN  /\ Len(body) = n
            /\ \A i \in 1..n : \E k \in kept :
                   /\ body[i] = DemoData[k]
                   /\ Cardinality({j \in kept : j < k}) = i - 1
            /\ (IsNone(request.featured) /\ IsNone(request.limit)) =>
                   Ids(body) = << Some("demo-1"), Some("demo-2"), Some("demo-3") >>
            /\ (request.featured = Some(TRUE) /\ IsNone(request.limit)) =>
                   Ids(body) = << Some("demo-1"), Some("demo-2") >>
            /\ (IsNone(request.featured) /\ request.limit = Some(1)) =>
                   Ids(body) = << Some("demo-1") >>

\* C2 witness: no database module, featured=false and limit=1 answered with
\* demo-3 alone.
C2_Witness ==
    /\ ListingsHandled
    /\ dbState = "ImportError"
    /\ request.featured = Some(FALSE)
    /\ request.limit = Some(1)
    /\ Ids(response.body) = << Some("demo-3") >>

\* C5: a listing request never ends in an error response; whenever the live
\* path failed (import, query, cursor iteration, or mapping a document) the
\* response is a success carrying the filtered fallback listings.
C5_FailuresSwallowed ==
    ListingsHandled =>
        /\ response.status = 200
        /\ response.exc # "none" =>
               /\ response.source = "fallback"
               /\ response.body =
                      Fallback(DemoData, request.featured, request.limit)

\* C5 witness: a document the cursor yielded failed to map after an earlier
\* one had mapped, and the response is the fallback.
C5_Witness ==
    /\ ListingsHandled
    /\ response.exc = "ValidationError"
    /\ \E i \in 2..Len(listing) :
           /\ ~ListingOutValid(DocKwargs(listing[i - 1]))
           /\ ListingOutValid(DocKwargs(listing[i]))
    /\ IsNone(request.featured)
    /\ IsNone(request.limit)
    /\ request.fault.kind = "none"
    /\ response.status = 200
    /\ response.source = "fallback"

C3_AckAlwaysOk ==
    (InquiryHandled /\ InquiryInValid(request.body)) =>
        /\ response.status = 200
        /\ response.body.status = "ok"
        /\ (response.body.id = "demo") <=> (inquiry = request.before)
        /\ inquiry # request.before =>
               /\ Len(inquiry) = Len(request.before) + 1
               /\ SubSeq(inquiry, 1, Len(request.before)) = request.before
               /\ LET doc == inquiry[Len(inquiry)]
                  IN  /\ response.body.id = Str(Some(doc["_id"]))
                      /\ doc.message = request.body.message
                      /\ doc.email = request.body.email
                      /\ doc.property_id = request.body.property_id

\* C3 witness: a valid inquiry was inserted into a working store and the
\* acknowledgement carries the stored identifier.
C3_Witness ==
    /\ InquiryHandled
    /\ InquiryInValid(request.body)
    /\ dbState = "Connected"
    /\ request.fault.kind = "none"
    /\ Len(inquiry) = Len(request.before) + 1
    /\ response.body = [status |-> "ok", id |-> "inquiry-" \o ToString(Len(inquiry))]

\* The symbols of an address after its first "@".
AfterAt(e) ==
    LET ats == {i \in 1..Len(e) : e[i] = "@"}
    IN  IF ats = {} THEN <<>>
        ELSE SubSeq(e, 1 + (CHOOSE i \in ats : \A j \in ats : i <= j), Len(e))

\* An address that is no email address: no "@", or no "." after it.
NotAnAddress(e) ==
    \/ \A i \in 1..Len(e) : e[i] # "@"
    \/ \A i \in 1..Len(AfterAt(e)) : AfterAt(e)[i] # "."

\* C4: an inquiry whose message is shorter than 5 or longer than 2000
\* characters, or whose email is no valid address, is rejected with a client
\* error before any persistence attempt: no insert is issued and the
\* inquiry collection is unchanged.
C4_RejectedBeforePersistence ==
    (InquiryHandled
       /\ (\/ request.body.message < 5
           \/ request.body.message > 2000
           \/ NotAnAddress(request.body.email))) =>
        /\ response.status = 422
        /\ response.ops = <<>>
        /\ inquiry = request.before

\* C4 witness: a four-character message sent to a working store was
\* rejected.
C4_Witness ==
    /\ InquiryHandled
    /\ request.body.message = 4
    /\ dbState = "Connected"
    /\ request.fault.kind = "none"
    /\ response.status = 422

\* What the caller sees of a response.
Visible(r) == [status |-> r.status, body |-> r.body]

\* The listing request at hand met a store that was unreachable, that
\* raised, or that was reachable and matched no document.
MaskedCondition ==
    \/ dbState # "Connected"
    \/ response.exc # "none"
    \/ Matching(request.featured) = {}

\* C6: for the same featured and limit, get_listings answers identically
\* when the store is unreachable, when it raises, and when it is reachable
\* but matches no document: the response at hand under any of the three
\* conditions equals the one each of the others gives.
C6_Indistinguishable ==
    (ListingsHandled /\ MaskedCondition) =>
        \A run \in { [db |-> "ImportError", coll |-> listing, fault |-> NoFault],
                     [db |-> "None", coll |-> listing, fault |-> NoFault],
                     [db |-> "Connected", coll |-> listing,
                      fault |-> [kind |-> "query", after |-> 0]],
                     [db |-> "Connected", coll |-> <<>>, fault |-> NoFault] } :
            Visible(response) =
                Visible(get_listings(run.db, run.coll, DEMO_LISTINGS, run.fault,
                                     request.featured, request.limit))

\* C6 witness: a reachable store that holds documents, none of them matching
\* the featured filter, answered with the fallback.
C6_Witness ==
    /\ ListingsHandled
    /\ dbState = "Connected"
    /\ request.fault.kind = "none"
    /\ listing # <<>>
    /\ Matching(request.featured) = {}
    /\ response.source = "fallback"
    /\ response.body # <<>>

\* The document of the listing collection a returned listing came from.
DocOf(item) ==
    CHOOSE d \in {listing[i] : i \in 1..Len(listing)} :
        item.id = Some(Str(Some(d["_id"])))

\* C8: when the store is reachable and the live query yields a result (for
\* an absent or positive limit), the response is exactly the matching
\* documents by creation time descending, cut to limit, each with the
\* store's identifier as a string id; and every response is entirely live
\* and complete or entirely fallback.
C8_LiveExact ==
    ListingsHandled =>
        LET body == response.body
            M    == Matching(request.featured)
        IN  /\ (dbState = "Connected" /\ response.exc = "none" /\ M # {}
                  /\ ContractLimit(request.limit)) =>
                   /\ response.source = "live"
                   /\ Len(body) = IF IsNone(request.limit) THEN Cardinality(M)
                                  ELSE Min(Val(request.limit), Cardinality(M))
                   /\ \A i \in 1..Len(body) :
                          /\ \E d \in M : body[i].id = Some(Str(Some(d["_id"])))
                          /\ body[i].featured = DocOf(body[i]).featured
                          /\ body[i].title = DocOf(body[i]).title
                   /\ \A i, j \in 1..Len(body) :
                          i < j => DocOf(body[i]).created_at
                                       > DocOf(body[j]).created_at
                   /\ \A d \in M :
                          (\A i \in 1..Len(body) : DocOf(body[i]) # d) =>
                              \A i \in 1..Len(body) :
                                  d.created_at < DocOf(body[i]).created_at
            /\ \/ /\ response.source = "live"
                  /\ response.exc = "none"
                  /\ body # <<>>
                  /\ \A i \in 1..Len(body) :
                         \E d \in M : body[i].id = Some(Str(Some(d["_id"])))
               \/ /\ response.source = "fallback"
                  /\ \A i \in 1..Len(body) :
                         \E k \in 1..Len(DemoData) : body[i] = DemoData[k]

\* C8 witness: a live response of two listings, cut by the limit from three
\* matching documents.
C8_Witness ==
    /\ ListingsHandled
    /\ response.source = "live"
    /\ request.limit = Some(2)
    /\ Len(response.body) = 2
    /\ Cardinality(Matching(request.featured)) = 3

\* The listing collection holds exactly the three demo listings: three
\* well-formed documents that, newest first, are featured, featured, not
\* featured.
StoreHoldsDemoListings ==
    /\ Len(listing) = Len(DemoData)
    /\ \A i \in 1..Len(listing) :
           /\ ListingOutValid(DocKwargs(listing[i]))
           /\ listing[i].featured = DemoData[Len(listing) + 1 - i].featured

\* C9: the fallback path applies the limit exactly when the live path does:
\* for every featured and every limit the handler accepts (here: absent,
\* zero or positive), a store holding exactly the three demo listings gives
\* a list of the same length and the same featured values as the fallback
\* dataset gives.
C9_SameFilters ==
    (ListingsHandled /\ response.source = "live" /\ StoreHoldsDemoListings
       /\ (IsNone(request.limit) \/ Val(request.limit) >= 0)) =>
        LET fb == Fallback(DemoData, request.featured, request.limit)
        IN  /\ Len(response.body) = Len(fb)
            /\ \A i \in 1..Len(fb) : response.body[i].featured = fb[i].featured

\* The store commands a handler may issue.
AllowedOps(endpoint) ==
    IF endpoint = "/api/listings" THEN {"listing.find"}
    ELSE IF endpoint = "/api/inquiries" THEN {"inquiry.insert_one"}
    ELSE IF endpoint = "/test" THEN {"list_collection_names"}
    ELSE {}

\* C10: every request issues at most one store command and never retries: a
\* listing request at most one query, an inquiry at most one insert, which
\* stores at most one document; after a store failure nothing more is
\* issued; no handler reads the inquiry collection.
C10_OneRoundTrip ==
    request # Idle =>
        /\ Len(response.ops) <= 1
        /\ \A i \in 1..Len(response.ops) :
               response.ops[i] \in AllowedOps(request.endpoint)
        /\ InquiryHandled =>
               /\ Len(inquiry) <= Len(request.before) + 1
               /\ inquiry # request.before =>
                      response.ops = << "inquiry.insert_one" >>

\* C10 witness: the query of a listing request failed and the fallback was
\* answered after that one command.
C10_Witness ==
    /\ ListingsHandled
    /\ dbState = "Connected"
    /\ request.fault.kind = "query"
    /\ response.ops = << "listing.find" >>
    /\ response.source = "fallback"

====
